---- MODULE Spec2Model ----
(***************************************************************************)
(* Model of hello2.py: the movie theatre store (Movies, Rooms, Showtimes,  *)
(* movie_room_association in movie.db), the module-level SQLAlchemy        *)
(* session and the operations that run through it.                         *)
(*                                                                         *)
(* Two copies of the tables are kept: `database` is what has been          *)
(* committed to movie.db, `session` is what statements executed through    *)
(* the module-level session read and write (the committed rows plus the    *)
(* statements of the open transaction).  session.commit() copies session   *)
(* to database; a rollback copies database to session.                     *)
(*                                                                         *)
(* Storage facts the model relies on (SQLite behind SQLAlchemy):           *)
(*  - an INTEGER PRIMARY KEY column without the AUTOINCREMENT keyword is   *)
(*    the rowid: a new row gets max(rowid)+1, or 1 in an empty table       *)
(*    (SQLAlchemy renders AUTOINCREMENT only with sqlite_autoincrement);   *)
(*  - FOREIGN KEY clauses are not enforced unless PRAGMA foreign_keys=ON   *)
(*    is issued, which the program never does;                             *)
(*  - the composite PRIMARY KEY of movie_room_association is enforced; a   *)
(*    rejected INSERT undoes that statement only, the transaction and the  *)
(*    statements before it stay open;                                      *)
(*  - an exception out of session.execute() does not roll the session      *)
(*    back, an exception out of the flush inside session.commit() does.    *)
(*                                                                         *)
(* The operations are the module's functions, called in any order on the   *)
(* one session the module creates; the Streamlit page below them is not    *)
(* modelled.                                                               *)
(***************************************************************************)
EXTENDS Integers, Sequences, FiniteSets, TLC

VARIABLES
    database,      \* committed tables of movie.db
    session,       \* tables as read and written through the session
    Showtimes,     \* rows of the Showtimes table (never written by the program)
    call,          \* the last operation called and its arguments
    outcome,       \* "ok" or the exception the last operation raised
    result,        \* the value the last operation returned
    assigned,      \* every movie_id ever generated for a Movie row
    seeded         \* add_sample_data has returned normally at least once

vars == <<database, session, Showtimes, call, outcome, result, assigned,
          seeded>>

----------------------------------------------------------------------------
(* Bounds of the model *)

MaxMovieId == 1      \* movie ids passed by callers range over 1..MaxMovieId,
                     \* and add_movie_orm is cut off once the next id exceeds it
MaxRoomId == 1       \* room ids passed by callers range over 1..MaxRoomId
MaxRoomList == 2     \* longest room_ids list passed to update_movie_rooms
MaxDate == 2         \* calendar dates are the days 1..MaxDate
MaxShowtimes == 2    \* most rows loaded into the Showtimes table

None == -1           \* Python's None where an integer id is optional

MovieIds == 1..MaxMovieId
RoomIdArgs == 1..MaxRoomId
Dates == 1..MaxDate

----------------------------------------------------------------------------
(* Rows *)

\* Movie(title, genre, duration, release_date): the four non-key columns
Movie(title, genre, duration, release_date) ==
    [title |-> title, genre |-> genre, duration |-> duration,
     release_date |-> release_date]

\* Room(room_number, max_capacity)
Room(room_number, max_capacity) ==
    [room_number |-> room_number, max_capacity |-> max_capacity]

\* the rows add_sample_data inserts
SampleRooms == <<Room(1, 3), Room(2, 2)>>
SampleMovies == <<Movie("Inception", "Sci-Fi", 148, "2010-07-16"),
                  Movie("The Godfather", "Crime", 175, "1972-03-24")>>

\* field values callers pass to add_movie_orm and update_movie_orm
MovieArgs == { Movie("Dune", "Sci-Fi", 155, "2021-10-22"),
               Movie("Dune: Part One", "Sci-Fi", 156, "2021-10-23") }

\* room_ids lists callers pass to update_movie_rooms
RoomIdLists == UNION { [1..n -> RoomIdArgs] : n \in 0..MaxRoomList }

NoCall == [name |-> "none"]

----------------------------------------------------------------------------
(* Tables *)

\* Base.metadata.create_all(engine) on a new movie.db: all tables empty
EmptyTable == [k \in {} |-> None]

EmptyTables ==
    [Movies |-> EmptyTable, Rooms |-> EmptyTable,
     movie_room_association |-> {}]

Max(S) == CHOOSE x \in S : \A y \in S : y <= x

\* the key SQLite gives the next row of a table whose keys are ids
NextRowid(ids) == IF ids = {} THEN 1 ELSE Max(ids) + 1

\* INSERT of one row under a generated key
Insert(table, row) ==
    LET id == NextRowid(DOMAIN table)
    IN  [k \in (DOMAIN table) \cup {id} |->
            IF k = id THEN row ELSE table[k]]

\* DELETE of the row with key id
Remove(table, id) == [k \in (DOMAIN table) \ {id} |-> table[k]]

Range(seq) == { seq[i] : i \in DOMAIN seq }

\* session.query(Movie).get(id), session.query(Room).get(id)
query_get(table, id) == IF id \in DOMAIN table THEN id ELSE None

\* what an operation did: the exception or "ok", the tables the session
\* reads afterwards, how the transaction ended ("commit", "rollback", or
\* "open" when an exception left it as it was) and the value returned
Effect(o, tables, end, value) ==
    [outcome |-> o, tables |-> tables, end |-> end, value |-> value]

----------------------------------------------------------------------------
(* Operations, as functions of the tables the session reads *)

\* add_sample_data without the test for an empty Movies table
add_sample_data_ungated(s) ==
    LET s1 == IF DOMAIN s.Rooms = {}
              THEN [s EXCEPT !.Rooms =
                        Insert(Insert(@, SampleRooms[1]), SampleRooms[2])]
              ELSE s
        movie1 == NextRowid(DOMAIN s1.Movies)
        s2 == [s1 EXCEPT !.Movies =
                  Insert(Insert(@, SampleMovies[1]), SampleMovies[2])]
    IN  Effect("ok",
               [s2 EXCEPT !.movie_room_association = @ \cup {<<movie1, 1>>}],
               "commit", None)

\* add_sample_data(): rooms if there is no room, movies if there is no
\* movie (the first one linked to Room 1), then commit
add_sample_data(s) ==
    LET s1 == IF DOMAIN s.Rooms = {}
              THEN [s EXCEPT !.Rooms =
                        Insert(Insert(@, SampleRooms[1]), SampleRooms[2])]
              ELSE s
    IN  IF DOMAIN s1.Movies # {}
        THEN Effect("ok", s1, "commit", None)
        ELSE LET movie1 == NextRowid(DOMAIN s1.Movies)
                 room == query_get(s1.Rooms, 1)
                 s2 == [s1 EXCEPT !.Movies =
                           Insert(Insert(@, SampleMovies[1]), SampleMovies[2])]
             IN  IF room = None   \* cannot happen: the first room has id 1
                 THEN Effect("AttributeError", s1, "open", None)
                 ELSE IF <<movie1, room>> \in s2.movie_room_association
                 THEN Effect("IntegrityError", s, "rollback", None)
                 ELSE Effect("ok",
                        [s2 EXCEPT !.movie_room_association =
                                        @ \cup {<<movie1, room>>}],
                        "commit", None)

\* get_all_movies(): the Movies rows with their keys
get_all_movies(s) ==
    { [movie_id |-> id, fields |-> s.Movies[id]] : id \in DOMAIN s.Movies }

\* add_movie_orm(title, genre, duration, release_date)
add_movie_orm(s, fields) ==
    Effect("ok", [s EXCEPT !.Movies = Insert(@, fields)], "commit",
           NextRowid(DOMAIN s.Movies))

\* update_movie_orm that creates the row when movie_id is not there
update_movie_orm_upsert(s, movie_id, fields) ==
    Effect("ok",
           [s EXCEPT !.Movies =
               [k \in (DOMAIN @) \cup {movie_id} |->
                   IF k = movie_id THEN fields ELSE @[k]]],
           "commit", None)

\* update_movie_orm that overwrites every Movies row
update_movie_orm_all_rows(s, movie_id, fields) ==
    LET movie == query_get(s.Movies, movie_id)
    IN  IF movie = None
        THEN Effect("AttributeError", s, "open", None)
        ELSE Effect("ok",
                    [s EXCEPT !.Movies = [k \in DOMAIN @ |-> fields]],
                    "commit", None)

\* update_movie_orm(movie_id, title, genre, duration, release_date)
update_movie_orm(s, movie_id, fields) ==
    LET movie == query_get(s.Movies, movie_id)
    IN  IF movie = None
        THEN Effect("AttributeError", s, "open", None)
        ELSE Effect("ok", [s EXCEPT !.Movies[movie] = fields], "commit", None)

\* the rooms collection of a Movie, as the relationship loads it: the Rooms
\* rows joined to the association rows of the movie
rooms(s, movie_id) ==
    { r \in DOMAIN s.Rooms : <<movie_id, r>> \in s.movie_room_association }

\* delete_movie_orm(movie_id): the flush deletes the association rows of
\* the loaded rooms collection, then the Movies row
delete_movie_orm(s, movie_id) ==
    LET movie == query_get(s.Movies, movie_id)
    IN  IF movie = None
        THEN Effect("UnmappedInstanceError", s, "open", None)
        ELSE Effect("ok",
               [s EXCEPT !.Movies = Remove(@, movie),
                         !.movie_room_association =
                             @ \ { <<movie, r>> : r \in rooms(s, movie) }],
               "commit", None)

\* fetch_movie_rooms(movie_id): the (room_id, room_number) rows of the join
fetch_movie_rooms(s, movie_id) ==
    { <<r, s.Rooms[r].room_number>> :
        r \in { x \in DOMAIN s.Rooms :
                  <<movie_id, x>> \in s.movie_room_association } }

\* update_movie_rooms without its DELETE statement
delete_association_skipped(assoc, movie_id) == assoc

\* DELETE FROM movie_room_association WHERE movie_id = :movie_id
delete_association(assoc, movie_id) ==
    { row \in assoc : row[1] # movie_id }

\* the INSERT loop of update_movie_rooms from position i on; stops at the
\* first INSERT the primary key rejects
RECURSIVE insert_association(_, _, _, _)
insert_association(assoc, movie_id, room_ids, i) ==
    IF i > Len(room_ids)
    THEN [assoc |-> assoc, raised |-> FALSE]
    ELSE IF <<movie_id, room_ids[i]>> \in assoc
    THEN [assoc |-> assoc, raised |-> TRUE]
    ELSE insert_association(assoc \cup {<<movie_id, room_ids[i]>>},
                            movie_id, room_ids, i + 1)

\* update_movie_rooms(movie_id, room_ids)
update_movie_rooms(s, movie_id, room_ids) ==
    LET deleted == delete_association(s.movie_room_association, movie_id)
        ins == insert_association(deleted, movie_id, room_ids, 1)
        s1 == [s EXCEPT !.movie_room_association = ins.assoc]
    IN  IF ins.raised
        THEN Effect("IntegrityError", s1, "open", None)
        ELSE Effect("ok", s1, "commit", None)

\* Python's truth value of an optional integer argument (if room_id:)
Truthy(x) == x # None /\ x # 0

\* generate_report(start_date, end_date, room_id, movie_id): the rows of
\* Showtimes JOIN Movies JOIN Rooms that pass the WHERE clause, each named
\* by the three rows it joins
generate_report(s, showtimes, start_date, end_date, room_id, movie_id) ==
    { j \in [showtime : DOMAIN showtimes, movie : DOMAIN s.Movies,
              room : DOMAIN s.Rooms] :
        /\ showtimes[j.showtime].movie_id = j.movie
        /\ showtimes[j.showtime].room_id = j.room
        /\ start_date <= showtimes[j.showtime].show_date
        /\ showtimes[j.showtime].show_date <= end_date
        /\ (Truthy(room_id) => j.room = room_id)
        /\ (Truthy(movie_id) => j.movie = movie_id) }

\* the columns generate_report selects for a joined row
report_row(s, showtimes, j) ==
    <<s.Movies[j.movie].title, showtimes[j.showtime].show_date,
      showtimes[j.showtime].show_time, s.Rooms[j.room].room_number,
      s.Movies[j.movie].duration>>

----------------------------------------------------------------------------
(* State machine *)

\* the module-level session on a newly created movie.db
Init ==
    /\ database = EmptyTables
    /\ session = EmptyTables
    /\ Showtimes = EmptyTable
    /\ call = NoCall
    /\ outcome = "ok"
    /\ result = None
    /\ assigned = {}
    /\ seeded = FALSE

\* one call c with effect e: the session and the committed tables move as
\* the transaction ended, and the call is recorded
Do(c, e) ==
    /\ call' = c
    /\ outcome' = e.outcome
    /\ result' = e.value
    /\ session' = IF e.end = "rollback" THEN database ELSE e.tables
    /\ database' = IF e.end = "commit" THEN e.tables ELSE database
    /\ assigned' = IF e.end = "commit"
                   THEN assigned \cup DOMAIN e.tables.Movies
                   ELSE assigned
    /\ seeded' = (seeded \/ (c.name = "add_sample_data" /\ e.outcome = "ok"))
    /\ UNCHANGED Showtimes

AddSampleData ==
    Do([name |-> "add_sample_data"], add_sample_data(session))

GetAllMovies ==
    Do([name |-> "get_all_movies"],
       Effect("ok", session, "open", get_all_movies(session)))

AddMovieOrm(fields) ==
    /\ NextRowid(DOMAIN session.Movies) <= MaxMovieId
    /\ Do([name |-> "add_movie_orm", fields |-> fields],
          add_movie_orm(session, fields))

UpdateMovieOrm(movie_id, fields) ==
    Do([name |-> "update_movie_orm", movie_id |-> movie_id,
        fields |-> fields],
       update_movie_orm(session, movie_id, fields))

DeleteMovieOrm(movie_id) ==
    Do([name |-> "delete_movie_orm", movie_id |-> movie_id],
       delete_movie_orm(session, movie_id))

FetchMovieRooms(movie_id) ==
    Do([name |-> "fetch_movie_rooms", movie_id |-> movie_id],
       Effect("ok", session, "open", fetch_movie_rooms(session, movie_id)))

UpdateMovieRooms(movie_id, room_ids) ==
    Do([name |-> "update_movie_rooms", movie_id |-> movie_id,
        room_ids |-> room_ids],
       update_movie_rooms(session, movie_id, room_ids))

GenerateReport(start_date, end_date, room_id, movie_id) ==
    Do([name |-> "generate_report", start_date |-> start_date,
        end_date |-> end_date, room_id |-> room_id, movie_id |-> movie_id],
       Effect("ok", session, "open",
              generate_report(session, Showtimes, start_date, end_date,
                              room_id, movie_id)))

Next ==
    \/ AddSampleData
    \/ GetAllMovies
    \/ \E fields \in MovieArgs : AddMovieOrm(fields)
    \/ \E movie_id \in MovieIds, fields \in MovieArgs :
            UpdateMovieOrm(movie_id, fields)
    \/ \E movie_id \in MovieIds : DeleteMovieOrm(movie_id)
    \/ \E movie_id \in MovieIds : FetchMovieRooms(movie_id)
    \/ \E movie_id \in MovieIds, room_ids \in RoomIdLists :
            UpdateMovieRooms(movie_id, room_ids)

Spec == Init /\ [][Next]_vars

----------------------------------------------------------------------------
(* The report over a loaded Showtimes table *)

\* Showtime(movie_id, room_id, show_date, show_time)
Showtime(movie_id, room_id, show_date, show_time) ==
    [movie_id |-> movie_id, room_id |-> room_id, show_date |-> show_date,
     show_time |-> show_time]

\* Showtimes rows loaded from outside the program; SQLite does not check
\* their movie_id and room_id against Movies and Rooms
ShowtimeRows ==
    { Showtime(m, r, d, "19:00") : m \in MovieIds, r \in RoomIdArgs, d \in Dates }

ShowtimeTables == UNION { [1..n -> ShowtimeRows] : n \in 0..MaxShowtimes }

\* optional id arguments of generate_report
OptionalIds(ids) == {None, 0} \cup ids

InitReport ==
    /\ database = EmptyTables
    /\ session = EmptyTables
    /\ Showtimes \in ShowtimeTables
    /\ call = NoCall
    /\ outcome = "ok"
    /\ result = None
    /\ assigned = {}
    /\ seeded = FALSE

NextReport ==
    \/ AddSampleData
    \/ \E movie_id \in MovieIds : DeleteMovieOrm(movie_id)
    \/ \E start_date \in Dates, end_date \in Dates,
          room_id \in OptionalIds(RoomIdArgs), movie_id \in OptionalIds(MovieIds) :
            GenerateReport(start_date, end_date, room_id, movie_id)

SpecReport == InitReport /\ [][NextReport]_vars

----------------------------------------------------------------------------
(* Properties.  In an action formula the unprimed variables are the state  *)
(* an operation starts in and the primed ones the state it returns in;     *)
(* call' names the operation.                                              *)

\* the association rows of one movie
AssocOf(s, movie_id) ==
    { row \in s.movie_room_association : row[1] = movie_id }

\* room_ids lists a set of existing rooms, each once
ListsExistingRooms(s, room_ids) ==
    /\ Range(room_ids) \subseteq DOMAIN s.Rooms
    /\ \A i, j \in DOMAIN room_ids : room_ids[i] = room_ids[j] => i = j

\* C1: for an existing movie and a set R of existing rooms, whatever the
\* movie was linked to before, update_movie_rooms(id, R) succeeds and
\* fetch_movie_rooms(id) right after it returns exactly the rooms of R;
\* a second update_movie_rooms(id, R) leaves the tables as the first did.
C1_ReplaceThenFetch ==
    [][ /\ ( /\ call'.name = "update_movie_rooms"
             /\ call'.movie_id \in DOMAIN session.Movies
             /\ ListsExistingRooms(session, call'.room_ids) )
           => /\ outcome' = "ok"
              /\ fetch_movie_rooms(session', call'.movie_id) =
                    { <<r, session.Rooms[r].room_number>> :
                         r \in Range(call'.room_ids) }
        /\ ( /\ call.name = "update_movie_rooms"
             /\ outcome = "ok"
             /\ call.movie_id \in DOMAIN session.Movies
             /\ ListsExistingRooms(session, call.room_ids)
             /\ call'.name = "fetch_movie_rooms"
             /\ call'.movie_id = call.movie_id )
           => { row[1] : row \in result' } = Range(call.room_ids)
        /\ ( /\ call.name = "update_movie_rooms"
             /\ outcome = "ok"
             /\ call.movie_id \in DOMAIN session.Movies
             /\ ListsExistingRooms(session, call.room_ids)
             /\ call' = call )
           => outcome' = "ok" /\ session' = session /\ database' = database
      ]_vars

C1_Witness ==
    /\ call.name = "update_movie_rooms"
    /\ outcome = "ok"
    /\ call.movie_id \in DOMAIN session.Movies
    /\ ListsExistingRooms(session, call.room_ids)
    /\ call.room_ids # <<>>
    /\ Cardinality(DOMAIN session.Movies) > 1

\* C2: an update_movie_rooms that raises leaves the association rows of
\* movie_id as they were before the call.
C2_ReplaceIsAtomic ==
    [][ (call'.name = "update_movie_rooms" /\ outcome' # "ok")
          => AssocOf(session', call'.movie_id) =
                AssocOf(session, call'.movie_id) ]_vars

\* C3: every association row references a Movies row and a Rooms row that
\* exist.
C3_ReferentialIntegrity ==
    \A s \in {session, database} :
        \A row \in s.movie_room_association :
            row[1] \in DOMAIN s.Movies /\ row[2] \in DOMAIN s.Rooms

\* C4: delete_movie_orm(id) of an existing movie removes the Movies row and
\* every association row of id, so fetch_movie_rooms(id) is then empty.
C4_DeleteRemovesAssociations ==
    [][ ( /\ call'.name = "delete_movie_orm"
          /\ call'.movie_id \in DOMAIN session.Movies )
          => /\ outcome' = "ok"
             /\ call'.movie_id \notin DOMAIN session'.Movies
             /\ fetch_movie_rooms(session', call'.movie_id) = {}
             /\ AssocOf(session', call'.movie_id) = {} ]_vars

\* C5: add_movie_orm adds exactly one Movies row holding the four
\* arguments under an id never assigned before, deleted movies included,
\* and get_all_movies then lists it.
C5_CreateUsesFreshId ==
    [][ call'.name = "add_movie_orm"
          => /\ outcome' = "ok"
             /\ result' \notin assigned
             /\ result' \notin DOMAIN session.Movies
             /\ DOMAIN session'.Movies = DOMAIN session.Movies \cup {result'}
             /\ \A id \in DOMAIN session.Movies :
                    session'.Movies[id] = session.Movies[id]
             /\ [movie_id |-> result', fields |-> call'.fields]
                    \in get_all_movies(session') ]_vars

\* C6: once add_sample_data has succeeded, every later call of it leaves
\* the Movies, Rooms and association rows as they were.
C6_SeedAgainIsNoOp ==
    [][ (seeded /\ call'.name = "add_sample_data")
          => session' = session ]_vars

\* C6 as amended: once add_sample_data has succeeded, a later call made
\* while the Movies table holds a row succeeds and leaves the Movies, Rooms
\* and association rows read through the session as they were.
C6_SeedAgainIsNoOpWhileMoviesExist ==
    [][ ( /\ seeded
          /\ call'.name = "add_sample_data"
          /\ DOMAIN session.Movies # {} )
          => outcome' = "ok" /\ session' = session ]_vars

C6_Witness ==
    /\ seeded
    /\ call.name = "add_sample_data"
    /\ outcome = "ok"
    /\ DOMAIN session.Movies = {2}
    /\ session.Movies[2] = SampleMovies[2]
    /\ DOMAIN session.Rooms = {1, 2}

\* C7: update_movie_orm and delete_movie_orm with an id that is not a
\* Movies row end in an error, and neither the session's tables nor the
\* committed ones change.
C7_MissingIdFailsWithoutChange ==
    [][ ( /\ call'.name \in {"update_movie_orm", "delete_movie_orm"}
          /\ call'.movie_id \notin DOMAIN session.Movies )
          => /\ outcome' # "ok"
             /\ session' = session
             /\ database' = database ]_vars

C7_Witness ==
    /\ call.name \in {"update_movie_orm", "delete_movie_orm"}
    /\ call.movie_id \notin DOMAIN session.Movies
    /\ outcome \in {"AttributeError", "UnmappedInstanceError"}
    /\ DOMAIN session.Movies # {}
    /\ session.movie_room_association # {}

\* C9: update_movie_orm of an existing movie sets its four fields to the
\* arguments; the set of movie ids, every other movie, the Rooms rows and
\* the association rows read through the session stay as they were.
C9_UpdateOverwritesOnlyThatMovie ==
    [][ ( /\ call'.name = "update_movie_orm"
          /\ call'.movie_id \in DOMAIN session.Movies )
          => /\ outcome' = "ok"
             /\ DOMAIN session'.Movies = DOMAIN session.Movies
             /\ session'.Movies[call'.movie_id].title = call'.fields.title
             /\ session'.Movies[call'.movie_id].genre = call'.fields.genre
             /\ session'.Movies[call'.movie_id].duration =
                    call'.fields.duration
             /\ session'.Movies[call'.movie_id].release_date =
                    call'.fields.release_date
             /\ \A id \in DOMAIN session.Movies \ {call'.movie_id} :
                    session'.Movies[id] = session.Movies[id]
             /\ session'.Rooms = session.Rooms
             /\ session'.movie_room_association =
                    session.movie_room_association ]_vars

C9_Witness ==
    /\ call.name = "update_movie_orm"
    /\ outcome = "ok"
    /\ session.Movies[call.movie_id] = call.fields
    /\ \E id \in DOMAIN session.Movies :
          id # call.movie_id /\ session.Movies[id] # call.fields
    /\ session.movie_room_association # {}

\* the tables a successful call c leaves when it starts from tables s
OwnEffect(c, s) ==
    CASE c.name = "add_sample_data" -> add_sample_data(s).tables
      [] c.name = "add_movie_orm" -> add_movie_orm(s, c.fields).tables
      [] c.name = "update_movie_orm" ->
            update_movie_orm(s, c.movie_id, c.fields).tables
      [] c.name = "delete_movie_orm" -> delete_movie_orm(s, c.movie_id).tables
      [] c.name = "update_movie_rooms" ->
            update_movie_rooms(s, c.movie_id, c.room_ids).tables
      [] OTHER -> s

\* C10: an operation that fails leaves nothing pending in the session, so
\* the committed tables after a successful operation are the committed
\* tables before it changed by that operation alone.
C10_CommitHoldsOnlyOwnEffect ==
    [][ ( /\ call'.name \in {"add_sample_data", "add_movie_orm",
                             "update_movie_orm", "delete_movie_orm",
                             "update_movie_rooms"}
          /\ outcome' = "ok" )
          => database' = OwnEffect(call', database) ]_vars

\* C8: generate_report returns one row for each Showtimes row whose movie
\* and room exist, whose show_date lies in [start_date, end_date], whose
\* room is room_id when room_id is given and whose movie is movie_id when
\* movie_id is given, and no other row; it never raises.
C8_ReportRows ==
    [][ call'.name = "generate_report"
          => /\ outcome' = "ok"
             /\ \A j \in result' : j.showtime \in DOMAIN Showtimes
             /\ \A st \in DOMAIN Showtimes :
                  LET row == Showtimes[st]
                      wanted ==
                        /\ row.movie_id \in DOMAIN session.Movies
                        /\ row.room_id \in DOMAIN session.Rooms
                        /\ call'.start_date <= row.show_date
                        /\ row.show_date <= call'.end_date
                        /\ (call'.room_id # None => row.room_id = call'.room_id)
                        /\ (call'.movie_id # None
                               => row.movie_id = call'.movie_id)
                  IN  Cardinality({ j \in result' : j.showtime = st }) =
                         IF wanted THEN 1 ELSE 0 ]_vars

====
